---------------------------- MODULE Spec2Model ----------------------------
(***************************************************************************)
(* Outlook CSV Scheduler (src/main.py): a Tk foreground loop that loads a  *)
(* CSV of schedule rows and a worker thread that registers them in         *)
(* Outlook through COM.                                                    *)
(*                                                                         *)
(* Text is a sequence of one-character strings, so that strip(), lower()   *)
(* and strptime() are computed character by character.  A character        *)
(* outside ASCII is written by its code point ("U4F11").  An Optional      *)
(* value (Python's None) is a sequence of length 0 (None) or 1.            *)
(***************************************************************************)
EXTENDS Integers, Sequences, FiniteSets, TLC

(***************************************************************************)
(* Bounds of the model.                                                    *)
(***************************************************************************)
\* Spec: files picked in the dialog, worker threads started, boxes shown
MaxSelects == 2
MaxRuns == 2
MaxDialogs == 2
\* the specifications that draw one input file: files picked, threads
\* started and boxes shown, together
InputSteps == 2
\* SpecLoads: the same sum
LoadSteps == 3
\* whitespace characters put on each side of a sampled status text
MaxPad == 1
\* data lines of a sampled file of line kinds
MaxLines == 3

None == <<>>
Some(v) == <<v>>

Max(S) == CHOOSE x \in S : \A y \in S : y <= x
Min(S) == CHOOSE x \in S : \A y \in S : x <= y

(***************************************************************************)
(* str.strip() and str.lower()                                             *)
(***************************************************************************)
Whitespace == {" ", "\t", "\r", "\n", "U3000"}

UpperCase == <<"A","B","C","D","E","F","G","H","I","J","K","L","M",
               "N","O","P","Q","R","S","T","U","V","W","X","Y","Z">>
LowerCase == <<"a","b","c","d","e","f","g","h","i","j","k","l","m",
               "n","o","p","q","r","s","t","u","v","w","x","y","z">>

lower_char(c) ==
    IF \E i \in 1..26 : UpperCase[i] = c
    THEN LowerCase[CHOOSE i \in 1..26 : UpperCase[i] = c]
    ELSE c

lower(s) == [i \in 1..Len(s) |-> lower_char(s[i])]

strip(s) ==
    LET keep == {i \in 1..Len(s) : s[i] \notin Whitespace}
    IN  IF keep = {} THEN <<>> ELSE SubSeq(s, Min(keep), Max(keep))

\* (value or ""): None and the empty text both give the empty text
or_empty(opt) == IF opt = None THEN <<>> ELSE opt[1]

(***************************************************************************)
(* STATUS_MAP and map_busy_status                                          *)
(***************************************************************************)
STATUS_MAP ==
    { << <<"U4F11","U307F">>, 3 >>,
      << <<"o","o","o">>, 3 >>,
      << <<"U4E0D","U5728">>, 3 >>,
      << <<"o","u","t","o","f","o","f","f","i","c","e">>, 3 >>,
      << <<"U5916","U51FA">>, 2 >>,
      << <<"U5FD9","U3057","U3044">>, 2 >>,
      << <<"b","u","s","y">>, 2 >>,
      << <<"U4EEE">>, 1 >>,
      << <<"t","e","n","t","a","t","i","v","e">>, 1 >>,
      << <<"U5728","U5E2D">>, 0 >>,
      << <<"U7A7A","U304D">>, 0 >>,
      << <<"f","r","e","e">>, 0 >>,
      << <<"U4ED6","U6240","U52E4","U52D9">>, 4 >>,
      << <<"w","o","r","k","i","n","g","e","l","s","e","w","h","e","r","e">>, 4 >> }

\* STATUS_MAP.get(key, default)
STATUS_MAP_get(key, default) ==
    IF \E e \in STATUS_MAP : e[1] = key
    THEN (CHOOSE e \in STATUS_MAP : e[1] = key)[2]
    ELSE default

map_busy_status_nolower(value) ==
    LET key == strip(value)
    IN  IF key = <<>> THEN 2 ELSE STATUS_MAP_get(key, 2)

map_busy_status(value) ==
    LET key == lower(strip(value))
    IN  IF key = <<>> THEN 2 ELSE STATUS_MAP_get(key, 2)

EXPECTED_FIELDS ==
    <<"Date", "Start", "End", "Subject", "Status", "Location", "Body">>


(***************************************************************************)
(* datetime.strptime(text, "%Y-%m-%d %H:%M"): the format's regular         *)
(* expression, group by group, then the datetime constructor's range       *)
(* checks.  ValueError is None.                                            *)
(***************************************************************************)
Digits == <<"0","1","2","3","4","5","6","7","8","9">>

is_digit(c) == \E i \in 1..10 : Digits[i] = c
is_digits(s) == \A i \in 1..Len(s) : is_digit(s[i])
digit_val(c) == (CHOOSE i \in 1..10 : Digits[i] = c) - 1

RECURSIVE int(_)
int(s) == IF s = <<>> THEN 0
          ELSE int(SubSeq(s, 1, Len(s) - 1)) * 10 + digit_val(s[Len(s)])

\* (?P<Y>\d\d\d\d)
re_Y(s) == Len(s) = 4 /\ is_digits(s)
\* (?P<m>1[0-2]|0[1-9]|[1-9])
re_m(s) == /\ is_digits(s)
           /\ \/ Len(s) = 2 /\ int(s) \in 1..12
              \/ Len(s) = 1 /\ int(s) \in 1..9
\* (?P<d>3[0-1]|[1-2]\d|0[1-9]|[1-9]| [1-9])
re_d(s) == \/ is_digits(s) /\ Len(s) = 2 /\ int(s) \in 1..31
           \/ is_digits(s) /\ Len(s) = 1 /\ int(s) \in 1..9
           \/ Len(s) = 2 /\ s[1] = " " /\ is_digit(s[2]) /\ digit_val(s[2]) \in 1..9
\* (?P<H>2[0-3]|[0-1]\d|\d)
re_H(s) == /\ is_digits(s)
           /\ \/ Len(s) = 2 /\ int(s) \in 0..23
              \/ Len(s) = 1
\* (?P<M>[0-5]\d|\d)
re_M(s) == /\ is_digits(s)
           /\ \/ Len(s) = 2 /\ int(s) \in 0..59
              \/ Len(s) = 1

\* the ways the whole text matches Y-m-d\s+H:M, as the lengths of m, d, \s+, H
format_matches(text) ==
    { k \in (1..2) \X (1..2) \X (1..Len(text)) \X (1..2) :
        LET lm  == k[1]
            ld  == k[2]
            lw  == k[3]
            lh  == k[4]
            pm  == 6
            pd  == pm + lm + 1
            pw  == pd + ld
            ph  == pw + lw
            pM  == ph + lh + 1
        IN  /\ pM <= Len(text)
            /\ re_Y(SubSeq(text, 1, 4))
            /\ text[5] = "-"
            /\ re_m(SubSeq(text, pm, pm + lm - 1))
            /\ text[pm + lm] = "-"
            /\ re_d(SubSeq(text, pd, pd + ld - 1))
            /\ \A i \in pw..(ph - 1) : text[i] \in Whitespace
            /\ re_H(SubSeq(text, ph, ph + lh - 1))
            /\ text[ph + lh] = ":"
            /\ re_M(SubSeq(text, pM, Len(text))) }

is_leap(y) == (y % 4 = 0 /\ y % 100 # 0) \/ y % 400 = 0

days_in_month(y, m) ==
    IF m = 2 THEN (IF is_leap(y) THEN 29 ELSE 28)
    ELSE IF m \in {4, 6, 9, 11} THEN 30 ELSE 31

strptime(text) ==
    IF format_matches(text) = {} THEN None
    ELSE LET k  == CHOOSE x \in format_matches(text) : TRUE
             pd == 6 + k[1] + 1
             ph == pd + k[2] + k[3]
             y  == int(SubSeq(text, 1, 4))
             m  == int(SubSeq(text, 6, 6 + k[1] - 1))
             d  == int(strip(SubSeq(text, pd, pd + k[2] - 1)))
             H  == int(SubSeq(text, ph, ph + k[4] - 1))
             M  == int(SubSeq(text, ph + k[4] + 1, Len(text)))
         IN  IF y < 1 \/ d > days_in_month(y, m) THEN None
             ELSE Some([year |-> y, month |-> m, day |-> d,
                        hour |-> H, minute |-> M])

\* datetime.__le__
dt_key(dt) == <<dt.year, dt.month, dt.day, dt.hour, dt.minute>>

RECURSIVE tuple_le(_, _)
tuple_le(a, b) ==
    IF a = <<>> THEN TRUE
    ELSE IF a[1] # b[1] THEN a[1] < b[1]
    ELSE tuple_le(Tail(a), Tail(b))

dt_lt(a, b) == dt_key(a) # dt_key(b) /\ tuple_le(dt_key(a), dt_key(b))
dt_le(a, b) == tuple_le(dt_key(a), dt_key(b))

(***************************************************************************)
(* SchedulerApp._parse_datetimes                                           *)
(***************************************************************************)
ParseResult(s, e, err) == [start_dt |-> s, end_dt |-> e, error |-> err]

\* a variant comparing with < where the source compares with <=
end_before_start(s, e) == dt_lt(e, s)

\* end_dt <= start_dt
end_not_after_start(s, e) == dt_le(e, s)

_parse_datetimes(row) ==
    IF row.date = <<>> THEN ParseResult(None, None, Some("DateEmpty"))
    ELSE IF row.start = <<>> \/ row.end = <<>>
         THEN ParseResult(None, None, Some("StartEndInvalid"))
    ELSE LET start_dt == strptime(row.date \o <<" ">> \o row.start)
             end_dt   == strptime(row.date \o <<" ">> \o row.end)
         IN  IF start_dt = None \/ end_dt = None
             THEN ParseResult(None, None, Some("StartEndInvalid"))
             ELSE IF end_not_after_start(start_dt[1], end_dt[1])
             THEN ParseResult(None, None, Some("EndNotAfterStart"))
             ELSE ParseResult(start_dt, end_dt, None)

(***************************************************************************)
(* A CSV file is what csv.reader yields for it: `head`, the Optional first *)
(* row (the header's cells, None for a file with no row at all), and       *)
(* `body`, one entry for each later physical line (line 2, 3, ...): the    *)
(* cells of the line, <<>> for a line with no character.  A cell is text.  *)
(* No record spans lines, and no line has more cells than the header.      *)
(***************************************************************************)
ScheduleRow(n, date, start, end, subject, status, location, body, busy) ==
    [row_number |-> n, date |-> date, start |-> start, end |-> end,
     subject |-> subject, status |-> status, location |-> location,
     body |-> body, busy |-> busy]

\* reader.fieldnames
fieldnames(file) == file.head

\* DictReader.__next__ skips the rows that csv.reader yields as []
\* ("while row == []: row = next(self.reader)"): the physical lines it yields
DictReader_lines(file) ==
    LET RECURSIVE pick(_)
        pick(i) == IF i > Len(file.body) THEN <<>>
                   ELSE IF file.body[i] = <<>> THEN pick(i + 1)
                   ELSE <<i>> \o pick(i + 1)
    IN  pick(1)

\* the dict of one yielded row: raw.get(name), None for a cell the line lacks
raw_get(headers, cells, name) ==
    LET at == {i \in 1..Len(headers) : headers[i] = name}
    IN  IF at = {} \/ Max(at) > Len(cells) THEN None ELSE Some(cells[Max(at)])

\* raw.values()
raw_values(headers, cells) ==
    [i \in 1..Len(headers) |-> IF i > Len(cells) THEN None ELSE Some(cells[i])]

\* any((value or "").strip() for value in raw.values())
any_value(headers, cells) ==
    \E i \in 1..Len(headers) : strip(or_empty(raw_values(headers, cells)[i])) # <<>>

LoadResult(ok, missing, rows) == [ok |-> ok, missing |-> missing, rows |-> rows]

\* the rows of lines 157-185: enumerate(reader, start=2) over the yielded rows
load_rows(file) ==
    LET headers == fieldnames(file)[1]
        lines   == DictReader_lines(file)
        field(k, name) == strip(or_empty(raw_get(headers, file.body[lines[k]], name)))
        RECURSIVE build(_)
        build(k) ==
            IF k > Len(lines) THEN <<>>
            ELSE IF ~any_value(headers, file.body[lines[k]]) THEN build(k + 1)
            ELSE << ScheduleRow(k + 1,
                                field(k, "Date"), field(k, "Start"), field(k, "End"),
                                field(k, "Subject"), field(k, "Status"),
                                field(k, "Location"), field(k, "Body"),
                                map_busy_status(field(k, "Status"))) >>
                 \o build(k + 1)
    IN  build(1)

\* missing = [field for field in EXPECTED_FIELDS if field not in headers]
missing_fields(headers) ==
    SelectSeq(EXPECTED_FIELDS, LAMBDA f : \A i \in 1..Len(headers) : headers[i] # f)

\* SchedulerApp._load_csv: ok = FALSE is the ValueError
_load_csv(file) ==
    IF fieldnames(file) = None THEN LoadResult(FALSE, <<>>, <<>>)
    ELSE IF missing_fields(fieldnames(file)[1]) # <<>>
         THEN LoadResult(FALSE, missing_fields(fieldnames(file)[1]), <<>>)
    ELSE LoadResult(TRUE, <<>>, load_rows(file))

\* SchedulerApp._refresh_tree: the table's items, "No" counting from 1
tree_of(rows) ==
    [idx \in 1..Len(rows) |->
        <<idx, rows[idx].date, rows[idx].start, rows[idx].end, rows[idx].subject,
          rows[idx].status, rows[idx].busy, rows[idx].location>>]

(***************************************************************************)
(* Sample texts and files.                                                 *)
(***************************************************************************)
D_0501 == <<"2","0","2","4","-","0","5","-","0","1">>
T_0900 == <<"0","9",":","0","0">>
T_1000 == <<"1","0",":","0","0">>
T_1130 == <<"1","1",":","3","0">>
S_busy == <<"b","u","s","y">>
S_Free == <<"F","r","e","e">>
S_ooo  == <<"o","o","o">>

\* the cells of one data line, in the order of EXPECTED_FIELDS
Cells(date, start, end, subject, status) ==
    <<date, start, end, subject, status, <<>>, <<>>>>

File(head, body) == [head |-> head, body |-> body]

\* one valid row below a line with no character
FileB ==
    File(Some(EXPECTED_FIELDS),
         << <<>>, Cells(D_0501, T_1000, T_1130, <<"d">>, S_Free) >>)
\* a valid row and an end-before-start row
FileC ==
    File(Some(EXPECTED_FIELDS),
         << Cells(D_0501, T_0900, T_1000, <<"a">>, S_busy),
            Cells(D_0501, T_1000, T_0900, <<"b">>, S_ooo) >>)
\* a header and no data row
FileHeaderOnly == File(Some(EXPECTED_FIELDS), <<>>)
\* no row at all
FileEmpty == File(None, <<>>)
\* a header that lacks Status and Body
FileBadHeader ==
    File(Some(<<"Date", "Start", "End", "Subject", "Location">>),
         << <<D_0501, T_0900, T_1000, <<"e">>, <<>>>> >>)

\* the header in another order, with a column the program ignores
FileReordered ==
    File(Some(<<"Subject", "Date", "Note", "End", "Start", "Body", "Location", "Status">>),
         << << <<"f">>, D_0501, <<"x">>, T_1130, T_0900, <<>>, <<"r","m">>, S_busy >> >>)

BadFiles == {FileEmpty, FileBadHeader}
Files == {FileB, FileC, FileHeaderOnly} \cup BadFiles

\* three valid rows
FileA ==
    File(Some(EXPECTED_FIELDS),
         << Cells(D_0501, T_0900, T_1000, <<"a">>, S_busy),
            Cells(D_0501, T_1000, T_1130, <<"b">>, S_Free),
            Cells(D_0501, T_0900, T_1130, <<>>, S_ooo) >>)

RunDisks == {{FileA}, {FileC}, {FileB}, {FileReordered}}

\* one of each kind of failing file beside a file that loads
LoadDisks == {{FileB, FileEmpty}, {FileC, FileBadHeader}, {FileHeaderOnly, FileReordered}}

(***************************************************************************)
(* Sampled dates and times of day, and files of one row made of them.      *)
(***************************************************************************)
D_0229  == <<"2","0","2","4","-","0","2","-","2","9">>
D_0230  == <<"2","0","2","4","-","0","2","-","3","0">>
D_2023  == <<"2","0","2","3","-","0","2","-","2","9">>
D_short == <<"2","0","2","4","-","5","-","1">>
D_slash == <<"2","0","2","4","/","0","5","/","0","1">>
D_year0 == <<"0","0","0","0","-","0","1","-","0","1">>
D_month == <<"2","0","2","4","-","1","3","-","0","1">>

T_0905  == <<"9",":","5">>
T_0930  == <<"0","9",":","3","0">>
T_2359  == <<"2","3",":","5","9">>
T_0000  == <<"0","0",":","0","0">>
T_2400  == <<"2","4",":","0","0">>
T_0960  == <<"0","9",":","6","0">>
T_noon  == <<"n","o","o","n">>
T_secs  == <<"0","9",":","0","0",":","0","0">>

SampleDates == {<<>>, D_0501, D_0229, D_0230, D_2023, D_short, D_slash, D_year0, D_month}
SampleTimes == {<<>>, T_0900, T_1000, T_0905, T_0930, T_2359, T_0000, T_2400,
                T_0960, T_noon, T_secs}

TimeFile(date, start, end) ==
    File(Some(EXPECTED_FIELDS), << Cells(date, start, end, <<"t">>, S_busy) >>)

\* every sampled date with one good pair of times, and every pair of sampled
\* times on one good date
TimeFiles ==
    {TimeFile(d, T_0900, T_1000) : d \in SampleDates}
    \cup {TimeFile(D_0501, T_0930, e) : e \in SampleTimes}
    \cup {TimeFile(D_0501, b, T_0930) : b \in SampleTimes}

\* a row without a date, a row that ends when it starts, a valid row
FileD ==
    File(Some(EXPECTED_FIELDS),
         << Cells(<<>>, T_0900, T_1000, <<"a">>, S_busy),
            Cells(D_0501, T_0930, T_0930, <<"b">>, S_busy),
            Cells(D_0229, T_0905, T_2359, <<"c">>, S_busy) >>)

TimeDisks == {{f} : f \in TimeFiles} \cup {{FileC}, {FileD}}

(***************************************************************************)
(* Sampled status texts: every key of STATUS_MAP, texts that are no key,   *)
(* and the ASCII ones again in upper case between whitespace.              *)
(***************************************************************************)
upper_char(c) ==
    IF \E i \in 1..26 : LowerCase[i] = c
    THEN UpperCase[CHOOSE i \in 1..26 : LowerCase[i] = c]
    ELSE c

upper(s) == [i \in 1..Len(s) |-> upper_char(s[i])]

spaces(n) == [i \in 1..n |-> IF i % 2 = 1 THEN " " ELSE "\t"]

NoKeys ==
    { <<>>, <<" ">>, <<"U3000">>, <<"U4F11">>,
      <<"b","u","s"," ","y">>, <<"f","r","e","e","d">>,
      <<"a","w","a","y">>, <<"o","u","t"," ","o","f"," ","o","f","f","i","c","e">> }

PlainStatus == {e[1] : e \in STATUS_MAP} \cup NoKeys

SampleStatus ==
    PlainStatus
    \cup {spaces(n) \o upper(s) \o spaces(n) : n \in 1..MaxPad, s \in PlainStatus}
    \cup {<<"U3000">> \o <<upper_char(s[1])>> \o Tail(s) : s \in PlainStatus \ {<<>>}}

StatusFile(status) ==
    File(Some(EXPECTED_FIELDS), << Cells(D_0501, T_0900, T_1000, <<"s">>, status) >>)

StatusDisks == {{StatusFile(s)} : s \in SampleStatus}

(***************************************************************************)
(* Sampled files of line kinds: a line with no character, a line of blanks,*)
(* a line of delimiters only, a data row.                                  *)
(***************************************************************************)
LineKinds ==
    { <<>>,
      << <<" ", " ">> >>,
      << <<>>, <<>>, <<" ">>, <<>>, <<>>, <<>>, <<>> >>,
      Cells(D_0501, T_0900, T_1000, <<"l">>, S_busy) }

RECURSIVE Bodies(_)
Bodies(n) ==
    IF n = 0 THEN {<<>>}
    ELSE Bodies(n - 1)
         \cup {Append(b, k) : b \in {x \in Bodies(n - 1) : Len(x) = n - 1}, k \in LineKinds}

LineDisks == {{File(Some(EXPECTED_FIELDS), b)} : b \in Bodies(MaxLines)}

(***************************************************************************)
(* State.                                                                  *)
(***************************************************************************)
VARIABLES
    disk,             \* the files the file dialog offers
    pywin32,          \* whether the guarded import of lines 11-16 succeeded
    csv_path,         \* self.csv_path: Optional, the file loaded last
    rows,             \* self.rows
    tree,             \* the items of self.tree
    register_button,  \* the state of self.register_button
    log_text,         \* the lines of self.log_text
    after_queue,      \* the callbacks root.after(0, ...) queued, oldest first
    dialogs,          \* the message boxes shown so far
    threads,          \* the worker threads on_register started
    picked            \* history: what the file dialog returned last, and how often

vars == <<disk, pywin32, csv_path, rows, tree, register_button, log_text,
          after_queue, dialogs, threads, picked>>

\* thread slots: enough for every specification
Runs == 1..(MaxRuns + LoadSteps)

\* a thread on_register has not started yet
NoThread ==
    [pc |-> "unstarted", seq |-> <<>>, pos |-> 0, calls |-> <<>>, accepted |-> <<>>]

Live == {"CoInitialize", "Dispatch", "for", "row", "CoUninitialize", "after",
         "append_log"}

write_line(message) == [cb |-> "write_line", message |-> message]
enable_button == [cb |-> "enable"]

\* the state __init__ leaves, with the files `files` to choose from
Start(files) ==
    /\ disk = files
    /\ pywin32 \in BOOLEAN
    /\ csv_path = None
    /\ rows = <<>>
    /\ tree = <<>>
    /\ register_button = "normal"
    /\ log_text = <<>>
    /\ after_queue = <<>>
    /\ dialogs = <<>>
    /\ threads = [w \in Runs |-> NoThread]
    /\ picked = [n |-> 0, file |-> None]

Init == Start(Files)

(***************************************************************************)
(* Log lines.  `run` is not part of the text: it records which worker      *)
(* thread (or the on_register call that started it) wrote the line.        *)
(***************************************************************************)
MsgLoad(n)       == [kind |-> "load", run |-> 0, count |-> n]
MsgStart(w)      == [kind |-> "start", run |-> w]
MsgEnd(w)        == [kind |-> "end", run |-> w]
MsgNoOutlook(w)  == [kind |-> "NG_outlook", run |-> w]
MsgRowNG(w, row, why) ==
    [kind |-> "NG_row", run |-> w, row_number |-> row.row_number, error |-> why]
MsgRowOK(w, row) ==
    [kind |-> "OK", run |-> w, date |-> row.date, start |-> row.start,
     end |-> row.end, subject |-> row.subject, busy |-> row.busy]

\* SchedulerApp._append_log: root.after(0, write_line)
_append_log(queue, message) == Append(queue, write_line(message))

(***************************************************************************)
(* Foreground: the Tk event loop runs one handler or queued callback at a  *)
(* time.                                                                   *)
(***************************************************************************)
\* a variant that empties the table when the load fails
load_error_clears(result) ==
    /\ dialogs' = Append(dialogs,
           [box |-> "showerror", title |-> "CSV_load_error",
            missing |-> result.missing])
    /\ rows' = <<>>
    /\ tree' = tree_of(<<>>)
    /\ UNCHANGED <<csv_path, after_queue>>

\* lines 137-139: the ValueError of _load_csv is shown, and select_csv returns
load_error(result) ==
    /\ dialogs' = Append(dialogs,
           [box |-> "showerror", title |-> "CSV_load_error",
            missing |-> result.missing])
    /\ UNCHANGED <<csv_path, rows, tree, after_queue>>

\* select_csv; file_path is what askopenfilename returned, None when cancelled
select_csv(file_path) ==
    /\ IF file_path = None
       THEN UNCHANGED vars
       ELSE LET result == _load_csv(file_path[1])
            IN  /\ picked' = [n |-> picked.n + 1, file |-> file_path]
                /\ IF ~result.ok
                   THEN load_error(result)
                   ELSE /\ csv_path' = file_path
                        /\ rows' = result.rows
                        /\ tree' = tree_of(result.rows)
                        /\ after_queue' =
                               _append_log(after_queue, MsgLoad(Len(result.rows)))
                        /\ UNCHANGED dialogs
                /\ UNCHANGED <<disk, pywin32, register_button, log_text, threads>>

\* on_register: the button's command, which a disabled button does not invoke
on_register ==
    /\ register_button = "normal"
    /\ IF rows = <<>>
       THEN /\ dialogs' = Append(dialogs,
                   [box |-> "showwarning", title |-> "CSV_not_selected"])
            /\ UNCHANGED <<register_button, after_queue, threads>>
       ELSE IF ~pywin32
       THEN /\ dialogs' = Append(dialogs,
                   [box |-> "showerror", title |-> "module_missing"])
            /\ UNCHANGED <<register_button, after_queue, threads>>
       ELSE \E w \in Runs :
            /\ threads[w].pc = "unstarted"
            /\ \A v \in 1..(w - 1) : threads[v].pc # "unstarted"
            /\ register_button' = "disabled"
            /\ after_queue' = _append_log(after_queue, MsgStart(w))
            /\ threads' = [threads EXCEPT
                   ![w] = [NoThread EXCEPT !.pc = "CoInitialize", !.accepted = rows]]
            /\ UNCHANGED dialogs
    /\ UNCHANGED <<disk, pywin32, csv_path, rows, tree, log_text, picked>>

\* the event loop runs the oldest queued callback
mainloop ==
    /\ after_queue # <<>>
    /\ after_queue' = Tail(after_queue)
    /\ IF Head(after_queue).cb = "write_line"
       THEN /\ log_text' = Append(log_text, Head(after_queue).message)
            /\ UNCHANGED register_button
       ELSE /\ register_button' = "normal"
            /\ UNCHANGED log_text
    /\ UNCHANGED <<disk, pywin32, csv_path, rows, tree, dialogs, threads, picked>>

(***************************************************************************)
(* Worker thread w: _register_appointments, one statement at a time.       *)
(***************************************************************************)
Call(op, ok) == [op |-> op, ok |-> ok]
RowCall(op, ok, row) == [op |-> op, ok |-> ok, row |-> row]
SaveCall(ok, row, appointment) ==
    [op |-> "Save", ok |-> ok, row |-> row, appointment |-> appointment]

\* the properties lines 237-244 set on the appointment
Appointment(row, parsed) ==
    [Subject    |-> row.subject,
     Start      |-> parsed.start_dt[1],
     End        |-> parsed.end_dt[1],
     BusyStatus |-> row.busy,
     Location   |-> IF row.location # <<>> THEN Some(row.location) ELSE None,
     Body       |-> IF row.body # <<>> THEN Some(row.body) ELSE None]

\* a variant where a failed Dispatch falls through to the loop
fall_through_after_Dispatch(ok) == "for"

\* a variant where a failed Dispatch leaves without the finally block
leave_after_Dispatch(ok) == IF ok THEN "for" ELSE "after"

\* lines 224-228: where the thread goes after Dispatch
after_Dispatch(ok) == IF ok THEN "for" ELSE "CoUninitialize"

\* a variant where an exception of the host ends the loop
stop_after_row(seq, pos, ok) ==
    IF pos >= Len(seq) \/ ~ok THEN "CoUninitialize" ELSE "row"

\* lines 230-250: where the thread goes after the body for seq[pos]; the
\* except clause of line 249 is inside the loop
after_row(seq, pos, ok) == IF pos >= Len(seq) THEN "CoUninitialize" ELSE "row"

\* line 222, outside the try: an exception ends the thread
CoInitialize(w) ==
    /\ threads[w].pc = "CoInitialize"
    /\ \E ok \in BOOLEAN :
           threads' = [threads EXCEPT
               ![w].calls = Append(@, Call("CoInitialize", ok)),
               ![w].pc = IF ok THEN "Dispatch" ELSE "raised"]
    /\ UNCHANGED <<disk, pywin32, csv_path, rows, tree, register_button, log_text,
                   after_queue, dialogs, picked>>

\* lines 224-228
Dispatch(w) ==
    /\ threads[w].pc = "Dispatch"
    /\ \E ok \in BOOLEAN :
        /\ threads' = [threads EXCEPT
               ![w].calls = Append(@, Call("Dispatch", ok)),
               ![w].pc = after_Dispatch(ok)]
        /\ after_queue' = IF ok THEN after_queue
                          ELSE _append_log(after_queue, MsgNoOutlook(w))
    /\ UNCHANGED <<disk, pywin32, csv_path, rows, tree, register_button, log_text,
                   dialogs, picked>>

\* line 230: iter(self.rows), the list self.rows names at this moment
for_rows(w) ==
    /\ threads[w].pc = "for"
    /\ threads' = [threads EXCEPT
           ![w].seq = rows,
           ![w].pos = 1,
           ![w].pc = after_row(rows, 0, TRUE)]
    /\ UNCHANGED <<disk, pywin32, csv_path, rows, tree, register_button, log_text,
                   after_queue, dialogs, picked>>

\* lines 231-250 for one row; the host may raise at CreateItem, or later
\* (a property, Save)
loop_body(w) ==
    LET t      == threads[w]
        row    == t.seq[t.pos]
        parsed == _parse_datetimes(row)
    IN  /\ t.pc = "row"
        /\ IF parsed.error # None
           THEN /\ after_queue' =
                       _append_log(after_queue, MsgRowNG(w, row, parsed.error[1]))
                /\ threads' = [threads EXCEPT
                       ![w].pos = @ + 1,
                       ![w].pc = after_row(t.seq, t.pos, TRUE)]
           ELSE \E outcome \in {"saved", "CreateItem_raises", "Save_raises"} :
                /\ after_queue' =
                       _append_log(after_queue,
                           IF outcome = "saved" THEN MsgRowOK(w, row)
                           ELSE MsgRowNG(w, row, "Outlook_failed"))
                /\ threads' = [threads EXCEPT
                       ![w].pos = @ + 1,
                       ![w].pc = after_row(t.seq, t.pos, outcome = "saved"),
                       ![w].calls =
                           IF outcome = "CreateItem_raises"
                           THEN Append(@, RowCall("CreateItem", FALSE, row))
                           ELSE @ \o << RowCall("CreateItem", TRUE, row),
                                        SaveCall(outcome = "saved", row,
                                                 Appointment(row, parsed)) >>]
        /\ UNCHANGED <<disk, pywin32, csv_path, rows, tree, register_button, log_text,
                       dialogs, picked>>

\* line 252
CoUninitialize(w) ==
    /\ threads[w].pc = "CoUninitialize"
    /\ threads' = [threads EXCEPT
           ![w].calls = Append(@, Call("CoUninitialize", TRUE)),
           ![w].pc = "after"]
    /\ UNCHANGED <<disk, pywin32, csv_path, rows, tree, register_button, log_text,
                   after_queue, dialogs, picked>>

\* line 253
after_enable(w) ==
    /\ threads[w].pc = "after"
    /\ after_queue' = Append(after_queue, enable_button)
    /\ threads' = [threads EXCEPT ![w].pc = "append_log"]
    /\ UNCHANGED <<disk, pywin32, csv_path, rows, tree, register_button, log_text,
                   dialogs, picked>>

\* line 254, the last statement of the thread
append_end(w) ==
    /\ threads[w].pc = "append_log"
    /\ after_queue' = _append_log(after_queue, MsgEnd(w))
    /\ threads' = [threads EXCEPT ![w].pc = "done"]
    /\ UNCHANGED <<disk, pywin32, csv_path, rows, tree, register_button, log_text,
                   dialogs, picked>>

_register_appointments(w) ==
    \/ CoInitialize(w)
    \/ Dispatch(w)
    \/ for_rows(w)
    \/ loop_body(w)
    \/ CoUninitialize(w)
    \/ after_enable(w)
    \/ append_end(w)

Paths(files) == {None} \cup {Some(f) : f \in files}

started == Cardinality({w \in Runs : threads[w].pc # "unstarted"})

\* what the user has caused so far
steps == picked.n + started + Len(dialogs)

\* the foreground's handlers within bounds: so many files picked, worker
\* threads started and message boxes shown, and so many of them together
Foreground(selects, runs, boxes, total) ==
    \/ /\ picked.n < selects
       /\ steps < total
       /\ \E file_path \in Paths(disk) : select_csv(file_path)
       /\ Len(dialogs') <= boxes
    \/ /\ steps < total
       /\ on_register
       /\ started' <= runs
       /\ Len(dialogs') <= boxes
    \/ mainloop

Worker == \E w \in Runs : _register_appointments(w)

Next ==
    Foreground(MaxSelects, MaxRuns, MaxDialogs, MaxSelects + MaxRuns + MaxDialogs)
        \/ Worker

Spec == Init /\ [][Next]_vars

\* the same handlers and steps, within the bound of one input file
NextInput == Foreground(InputSteps, InputSteps, InputSteps, InputSteps) \/ Worker

\* the same, with a second file to pick
NextLoads == Foreground(LoadSteps, LoadSteps, LoadSteps, LoadSteps) \/ Worker

InitRuns   == \E d \in RunDisks : Start(d)
InitTimes  == \E d \in TimeDisks : Start(d)
InitStatus == \E d \in StatusDisks : Start(d)
InitLines  == \E d \in LineDisks : Start(d)
InitLoads  == \E d \in LoadDisks : Start(d)

SpecRuns   == InitRuns /\ [][NextInput]_vars
SpecTimes  == InitTimes /\ [][NextInput]_vars
SpecStatus == InitStatus /\ [][NextInput]_vars
SpecLines  == InitLines /\ [][NextInput]_vars
SpecLoads  == InitLoads /\ [][NextLoads]_vars

(***************************************************************************)
(* What the claims speak of.                                               *)
(***************************************************************************)
\* the threads executing _register_appointments, its finally block included
InFlight == {w \in Runs : threads[w].pc \in Live}

\* the log lines written so far: those displayed, then those still queued
issued ==
    log_text \o
    [i \in 1..Len(SelectSeq(after_queue, LAMBDA c : c.cb = "write_line")) |->
        SelectSeq(after_queue, LAMBDA c : c.cb = "write_line")[i].message]

LinesOf(w) == SelectSeq(issued, LAMBDA m : m.run = w)
RowLinesOf(w) == SelectSeq(LinesOf(w), LAMBDA m : m.kind \in {"OK", "NG_row"})

CallsOf(w, ops) == SelectSeq(threads[w].calls, LAMBDA c : c.op \in ops)

Made(w, op, ok) == \E i \in 1..Len(threads[w].calls) :
                       threads[w].calls[i].op = op /\ threads[w].calls[i].ok = ok

\* line 230 has run: the thread holds the list it iterates
Iterating(w) == threads[w].pos >= 1

\* the loop of lines 230-250 is over
LoopOver(w) ==
    Iterating(w) /\ threads[w].pc \in {"CoUninitialize", "after", "append_log", "done"}

(* C1: at most one submission task is in flight: never are two worker      *)
(* threads both still executing _register_appointments.                    *)
C1_OneInFlight == Cardinality(InFlight) <= 1

(* C2: every run that entered Running returns to Idle with the submit      *)
(* button enabled again, whatever the worker's outcome: once every worker  *)
(* thread has ended and the event loop has run every queued callback, the  *)
(* button is enabled.                                                      *)
C2_ButtonReenabled ==
    (InFlight = {} /\ after_queue = <<>>) => register_button = "normal"

(* C10: the rows a run processes are the row list that was current when    *)
(* submit was triggered, whatever select_csv loads afterwards.             *)
C10_RunKeepsItsRows ==
    \A w \in Runs : Iterating(w) => threads[w].seq = threads[w].accepted

(* C6: every ScheduleRow of a load has the 1-based line number of its      *)
(* record in the file (the header is line 1), whatever blank lines precede  *)
(* it; a data row of blank fields only is left out.                        *)
IsBlankLine(cells) ==
    \A i \in 1..Len(cells) : \A j \in 1..Len(cells[i]) : cells[i][j] \in Whitespace

RecordLines(file) ==
    LET n == Len(file.body)
        keep == {i \in 1..n : ~IsBlankLine(file.body[i])}
        RECURSIVE sorted(_)
        sorted(S) == IF S = {} THEN <<>> ELSE <<Min(S) + 1>> \o sorted(S \ {Min(S)})
    IN  sorted(keep)

C6_RowNumberIsLineNumber ==
    csv_path # None =>
        /\ Len(rows) = Len(RecordLines(csv_path[1]))
        /\ \A k \in 1..Len(rows) : rows[k].row_number = RecordLines(csv_path[1])[k]

(* C3: a run whose Dispatch of the calendar application failed makes no    *)
(* CreateItem or Save call for any row, writes no per-row log line, and    *)
(* writes exactly one [NG] line.                                           *)
C3_HostUnreachable ==
    \A w \in Runs : Made(w, "Dispatch", FALSE) =>
        /\ CallsOf(w, {"CreateItem", "Save"}) = <<>>
        /\ RowLinesOf(w) = <<>>
        /\ Len(SelectSeq(LinesOf(w), LAMBDA m : m.kind \in {"NG_outlook", "NG_row"})) = 1

\* a run of three rows that ended after Dispatch failed, its lines displayed
C3_Witness ==
    \E w \in Runs :
        /\ Made(w, "Dispatch", FALSE)
        /\ threads[w].pc = "done"
        /\ Len(threads[w].accepted) = 3
        /\ after_queue = <<>>

(* C4: with the host connected, a failure creating one appointment stays   *)
(* with its row: the run processes every row, and the log gets one outcome *)
(* line per row, in row order: the success line of a saved row, a failure  *)
(* line with the row number otherwise.                                     *)
Saved(w, row) ==
    \E i \in 1..Len(threads[w].calls) :
        /\ threads[w].calls[i].op = "Save"
        /\ threads[w].calls[i].ok
        /\ threads[w].calls[i].row = row

C4_OneOutcomePerRow ==
    \A w \in Runs : Iterating(w) =>
        LET t     == threads[w]
            lines == RowLinesOf(w)
        IN  /\ Len(lines) = t.pos - 1
            /\ \A i \in 1..Len(lines) :
                   IF Saved(w, t.seq[i])
                   THEN lines[i] = MsgRowOK(w, t.seq[i])
                   ELSE /\ lines[i].kind = "NG_row"
                        /\ lines[i].row_number = t.seq[i].row_number
            /\ LoopOver(w) => t.pos - 1 = Len(t.seq)

\* three rows, the second failed at the host, the run over and displayed
C4_Witness ==
    \E w \in Runs :
        /\ threads[w].pc = "done"
        /\ after_queue = <<>>
        /\ Len(threads[w].seq) = 3
        /\ [i \in 1..3 |-> SelectSeq(log_text,
               LAMBDA m : m.run = w /\ m.kind \in {"OK", "NG_row"})[i].kind]
             = <<"OK", "NG_row", "OK">>
        /\ \E i \in 1..Len(threads[w].calls) :
               /\ ~threads[w].calls[i].ok
               /\ threads[w].calls[i].op \in {"CreateItem", "Save"}
               /\ threads[w].calls[i].row = threads[w].seq[2]

(* C9: a run whose CoInitialize succeeded executes CoUninitialize exactly  *)
(* once before its thread ends, on every exit path, and makes no creation  *)
(* call before the CoInitialize or after the CoUninitialize.               *)
C9_ReleasedOnce ==
    \A w \in Runs :
        LET calls == threads[w].calls
            released == {i \in 1..Len(calls) : calls[i].op = "CoUninitialize"}
        IN  /\ Cardinality(released) <= 1
            /\ (Made(w, "CoInitialize", TRUE) /\ threads[w].pc \in {"done", "raised"})
                   => Cardinality(released) = 1
            /\ \A i \in 1..Len(calls) : calls[i].op \in {"CreateItem", "Save"} =>
                   /\ \E j \in 1..(i - 1) : calls[j] = Call("CoInitialize", TRUE)
                   /\ \A j \in 1..(i - 1) : calls[j].op # "CoUninitialize"

\* a run over, in which the host failed one row and saved another
C9_Witness ==
    \E w \in Runs :
        /\ threads[w].pc = "done"
        /\ Made(w, "Save", FALSE)
        /\ Made(w, "Save", TRUE)
        /\ Made(w, "CoUninitialize", TRUE)

(* C5: a row that fails validation is never submitted: CreateItem is      *)
(* called for a row only if its date and times are non-empty, date+start   *)
(* and date+end parse under %Y-%m-%d %H:%M, and the end is strictly later  *)
(* than the start.  Any other row gets no timestamps and no creation call, *)
(* exactly one failure line with its row number, and the run goes on.      *)
(* The sampled texts that parse, and the minute of the day of each time:   *)
ParsingDates == {D_0501, D_0229, D_short}

MinuteOfDay(t) ==
    CASE t = T_0900 -> 540
      [] t = T_1000 -> 600
      [] t = T_1130 -> 690
      [] t = T_0905 -> 545
      [] t = T_0930 -> 570
      [] t = T_2359 -> 1439
      [] t = T_0000 -> 0
      [] OTHER -> -1

PassesValidation(row) ==
    /\ row.date \in ParsingDates
    /\ MinuteOfDay(row.start) >= 0
    /\ MinuteOfDay(row.end) > MinuteOfDay(row.start)

C5_InvalidRowNeverSubmitted ==
    \A w \in Runs : Iterating(w) =>
        LET t == threads[w]
        IN  /\ \A i \in 1..Len(t.calls) :
                   t.calls[i].op \in {"CreateItem", "Save"}
                       => PassesValidation(t.calls[i].row)
            /\ \A i \in 1..Len(t.calls) :
                   t.calls[i].op = "Save" =>
                       LET a == t.calls[i].appointment
                       IN  /\ a.Start.hour * 60 + a.Start.minute
                                = MinuteOfDay(t.calls[i].row.start)
                           /\ a.End.hour * 60 + a.End.minute
                                = MinuteOfDay(t.calls[i].row.end)
            /\ \A i \in 1..(t.pos - 1) :
                   ~PassesValidation(t.seq[i]) =>
                       LET mine == SelectSeq(LinesOf(w),
                                       LAMBDA m : /\ m.kind = "NG_row"
                                                  /\ m.row_number = t.seq[i].row_number)
                       IN  /\ Len(mine) = 1
                           /\ mine[1].error \in
                                  {"DateEmpty", "StartEndInvalid", "EndNotAfterStart"}
                           /\ \A j \in 1..Len(t.calls) :
                                  t.calls[j].op \in {"CreateItem", "Save"}
                                      => t.calls[j].row # t.seq[i]
            /\ LoopOver(w) => t.pos - 1 = Len(t.seq)

\* the run of FileD is over: two rows refused, the third saved
C5_Witness ==
    \E w \in Runs :
        /\ threads[w].pc = "done"
        /\ Len(threads[w].seq) = 3
        /\ threads[w].seq[2].start = threads[w].seq[2].end
        /\ [i \in 1..Len(RowLinesOf(w)) |-> RowLinesOf(w)[i].kind]
             = <<"NG_row", "NG_row", "OK">>
        /\ Len(CallsOf(w, {"CreateItem"})) = 1

(* C7: a load that fails for its header (no header row, or a required name *)
(* missing) leaves the row list, the file path, the table and the log as   *)
(* they were and shows the user one error box; only a successful load      *)
(* replaces the row list, and replaces it as a whole.                      *)
RequiredNames == {"Date", "Start", "End", "Subject", "Status", "Location", "Body"}

HeaderFails(file) ==
    \/ file.head = None
    \/ \E name \in RequiredNames :
           \A i \in 1..Len(file.head[1]) : file.head[1][i] # name

C7_FailedLoadKeepsState ==
    [][ /\ (picked' # picked /\ HeaderFails(picked'.file[1])) =>
               /\ rows' = rows
               /\ csv_path' = csv_path
               /\ tree' = tree
               /\ log_text' = log_text
               /\ after_queue' = after_queue
               /\ Len(dialogs') = Len(dialogs) + 1
               /\ dialogs'[Len(dialogs')].box = "showerror"
        /\ rows' # rows =>
               /\ picked' # picked
               /\ ~HeaderFails(picked'.file[1])
               /\ csv_path' = picked'.file
               /\ Len(rows') = Len(RecordLines(picked'.file[1]))
               /\ Len(tree') = Len(rows')
      ]_vars

\* a file with a failing header was picked last, after a file that loaded
C7_Witness ==
    /\ picked.file # None
    /\ HeaderFails(picked.file[1])
    /\ csv_path # None
    /\ rows # <<>>
    /\ Len(dialogs) = 1

(* C8: the busy-status mapper returns, for a status text that is an entry  *)
(* of the synonym table once trimmed and lower-cased, the entry's code     *)
(* (out-of-office 3, busy 2, tentative 1, free 0, working-elsewhere 4),    *)
(* and 2 for every other text; so every row of a loaded list, and every    *)
(* busy code passed to the host, is the code of its status and in 0..4.    *)
DocumentedCode(key) ==
    CASE key \in { <<"U4F11","U307F">>, <<"o","o","o">>, <<"U4E0D","U5728">>,
                   <<"o","u","t","o","f","o","f","f","i","c","e">> } -> 3
      [] key \in { <<"U5916","U51FA">>, <<"U5FD9","U3057","U3044">>,
                   <<"b","u","s","y">> } -> 2
      [] key \in { <<"U4EEE">>, <<"t","e","n","t","a","t","i","v","e">> } -> 1
      [] key \in { <<"U5728","U5E2D">>, <<"U7A7A","U304D">>, <<"f","r","e","e">> } -> 0
      [] key \in { <<"U4ED6","U6240","U52E4","U52D9">>,
                   <<"w","o","r","k","i","n","g","e","l","s","e","w","h","e","r","e">> } -> 4
      [] OTHER -> 2

\* the sampled texts made of `core`: itself, in upper case between
\* whitespace, and capitalised after an ideographic space
WaysToWrite(core) ==
    {core}
    \cup {spaces(n) \o upper(core) \o spaces(n) : n \in 1..MaxPad}
    \cup (IF core = <<>> THEN {}
          ELSE {<<"U3000">> \o <<upper_char(core[1])>> \o Tail(core)})

ExpectedBusy(text) ==
    DocumentedCode(CHOOSE core \in PlainStatus : text \in WaysToWrite(core))

\* the status cell of the one data line of a sampled status file
StatusCell(file) == file.body[1][5]

C8_BusyCodeOfStatus ==
    /\ \A k \in 1..Len(rows) :
           /\ rows[k].busy \in 0..4
           /\ rows[k].busy = ExpectedBusy(StatusCell(csv_path[1]))
    /\ \A w \in Runs : \A i \in 1..Len(threads[w].calls) :
           threads[w].calls[i].op = "Save" =>
               /\ threads[w].calls[i].appointment.BusyStatus \in 0..4
               /\ threads[w].calls[i].appointment.BusyStatus
                    = ExpectedBusy(StatusCell(csv_path[1]))

\* "WORKINGELSEWHERE" between whitespace was loaded and saved with code 4
C8_Witness ==
    /\ csv_path # None
    /\ StatusCell(csv_path[1]) =
           <<" ">> \o upper(<<"w","o","r","k","i","n","g","e","l","s","e","w","h","e","r","e">>)
               \o <<" ">>
    /\ \E w \in Runs : \E i \in 1..Len(threads[w].calls) :
           /\ threads[w].calls[i].op = "Save"
           /\ threads[w].calls[i].ok
           /\ threads[w].calls[i].appointment.BusyStatus = 4

=============================================================================
